---------------------------- MODULE Spec2Model ----------------------------
(***************************************************************************)
(* A model of tv-renamer's backend (src/backend/mod.rs):                   *)
(*   Arguments::get_targets, Arguments::get_destination,                   *)
(*   derive_season_number, get_seasons and get_episodes.                   *)
(*                                                                         *)
(* Strings are sequences of one-character strings.  A usize is a sequence  *)
(* of 16-bit limbs, least significant first, so that the 64-bit width of   *)
(* the counters and the `as u32` casts are kept exactly.                   *)
(***************************************************************************)
EXTENDS Integers, Sequences, FiniteSets, TLC

VARIABLES
    \* derive_season_number
    season_path,      \* the argument `season`
    season_result,    \* "pending", or the outcome of the call
    \* get_destination (called on its own)
    dst_args,         \* the Arguments the call reads
    dst_call,         \* [directory, file, episode, title]
    dst_result,       \* "pending", or the returned path
    \* get_seasons / get_episodes
    fs_dir,           \* the argument `directory`
    fs_readable,      \* whether fs::read_dir(directory) succeeds
    fs_entries,       \* the directory's entries: name -> kind
    seasons_result,   \* "pending", or the outcome of get_seasons
    episodes_result,  \* "pending", or the outcome of get_episodes
    \* get_targets
    args,             \* self: series_name, season_number, pad_length, template
    directory,        \* the argument `directory`
    episodes,         \* the argument `episodes`
    episode_index,    \* the argument `episode_index`
    pc,               \* position in get_targets
    series_info,      \* the local `series_info`
    output,           \* the local `output`
    current_index,    \* the local `current_index`
    file_pos,         \* position of the `for file in episodes` iterator
    overflow_checks,  \* whether the build panics on integer overflow
    result,           \* "pending", or the value get_targets returned
    search_calls,     \* api.search calls made so far, in order
    lookup_calls,     \* api.episode calls made so far, in order
    render_calls      \* get_destination calls made so far, in order

season_vars == <<season_path, season_result>>
dst_vars == <<dst_args, dst_call, dst_result>>
scan_vars == <<fs_dir, fs_readable, fs_entries, seasons_result, episodes_result>>
targets_vars == <<args, directory, episodes, episode_index, pc, series_info,
                  output, current_index, file_pos, overflow_checks, result,
                  search_calls, lookup_calls, render_calls>>
vars == <<season_vars, dst_vars, scan_vars, targets_vars>>

---------------------------------------------------------------------------
(* Characters.                                                             *)

Upper == <<"A","B","C","D","E","F","G","H","I","J","K","L","M",
           "N","O","P","Q","R","S","T","U","V","W","X","Y","Z">>
Lower == <<"a","b","c","d","e","f","g","h","i","j","k","l","m",
           "n","o","p","q","r","s","t","u","v","w","x","y","z">>
DigitChars == <<"0","1","2","3","4","5","6","7","8","9">>

\* The printable ASCII characters in code-point order: 32 (space) to 95,
\* and 97 to 126 (96, the grave accent, cannot be written in a string here).
AsciiLow == <<" ","!","\"","#","$","%","&","'","(",")","*","+",",","-",".","/">>
            \o DigitChars
            \o <<":",";","<","=",">","?","@">>
            \o Upper
            \o <<"[","\\","]","^","_">>
AsciiHigh == Lower \o <<"{","|","}","~">>

\* The code point of a character (the byte that the str ordering compares).
Ord(c) ==
    IF \E i \in 1..Len(AsciiLow) : AsciiLow[i] = c
    THEN 31 + (CHOOSE i \in 1..Len(AsciiLow) : AsciiLow[i] = c)
    ELSE 96 + (CHOOSE i \in 1..Len(AsciiHigh) : AsciiHigh[i] = c)

IsDigit(c) == \E i \in 1..10 : DigitChars[i] = c
DigitValue(c) == (CHOOSE i \in 1..10 : DigitChars[i] = c) - 1

\* char::to_lowercase on ASCII.
CharToLower(c) ==
    IF \E i \in 1..26 : Upper[i] = c
    THEN Lower[CHOOSE i \in 1..26 : Upper[i] = c]
    ELSE c

\* str::to_lowercase
ToLowercase(s) == [i \in 1..Len(s) |-> CharToLower(s[i])]

\* char::is_whitespace, on ASCII space (tab, newline, ... are not modelled).
IsWhitespace(c) == c = " "

---------------------------------------------------------------------------
(* usize and u32.                                                          *)

UsizeBits == 64
U32Bits == 32
LimbBits == 16
LimbBase == 2^LimbBits
NumLimbs == UsizeBits \div LimbBits

\* The usize with value n, for 0 <= n < 2^31.
Usize(n) ==
    [i \in 1..NumLimbs |->
        IF i = 1 THEN n % LimbBase ELSE IF i = 2 THEN n \div LimbBase ELSE 0]

UsizeZero == Usize(0)
UsizeMax == [i \in 1..NumLimbs |-> LimbBase - 1]

\* x + 1 in usize arithmetic, wrapping at 2^64.
UsizeWrappingInc(x) ==
    LET low == {i \in 1..NumLimbs : x[i] # LimbBase - 1}
        k == IF low = {} THEN 0 ELSE CHOOSE i \in low : \A j \in low : i <= j
    IN  [i \in 1..NumLimbs |->
            IF k = 0 \/ i < k THEN 0 ELSE IF i = k THEN x[i] + 1 ELSE x[i]]

\* x * m + a with m, a small: [overflow, val].
RECURSIVE MulAddLimbs(_, _, _, _, _)
MulAddLimbs(x, m, carry, i, acc) ==
    IF i > NumLimbs
    THEN [overflow |-> carry > 0, val |-> acc]
    ELSE LET cur == x[i] * m + carry
         IN  MulAddLimbs(x, m, cur \div LimbBase, i + 1,
                         Append(acc, cur % LimbBase))

UsizeCheckedMulAdd(x, m, a) == MulAddLimbs(x, m, a, 1, <<>>)

\* x divided by 10: [quot, rem].
RECURSIVE DivLimbs(_, _, _, _)
DivLimbs(x, i, rem, acc) ==
    IF i = 0
    THEN [quot |-> acc, rem |-> rem]
    ELSE LET cur == rem * LimbBase + x[i]
         IN  DivLimbs(x, i - 1, cur % 10, [acc EXCEPT ![i] = cur \div 10])

UsizeDivMod10(x) == DivLimbs(x, NumLimbs, 0, x)

RECURSIVE UsizeDigits(_)
UsizeDigits(x) ==
    IF x = UsizeZero
    THEN <<>>
    ELSE LET d == UsizeDivMod10(x)
         IN  UsizeDigits(d.quot) \o <<DigitChars[d.rem + 1]>>

\* usize::to_string: plain decimal.
UsizeToString(x) == IF x = UsizeZero THEN <<"0">> ELSE UsizeDigits(x)

\* `x as u32`: the low 32 bits.
AsU32(x) == [i \in 1..(U32Bits \div LimbBits) |-> x[i]]

\* The value of a u32 as a usize (for comparing the two).
U32ToUsize(y) == [i \in 1..NumLimbs |-> IF i <= Len(y) THEN y[i] ELSE 0]

\* str::parse::<usize>: an optional leading '+', then one or more ASCII
\* digits; an empty string, any other character or a value above
\* usize::MAX is an error.
RECURSIVE ParseDigits(_, _, _)
ParseDigits(s, i, acc) ==
    IF i > Len(s)
    THEN [ok |-> TRUE, val |-> acc]
    ELSE IF ~IsDigit(s[i])
    THEN [ok |-> FALSE, val |-> UsizeZero]
    ELSE LET r == UsizeCheckedMulAdd(acc, 10, DigitValue(s[i]))
         IN  IF r.overflow
             THEN [ok |-> FALSE, val |-> UsizeZero]
             ELSE ParseDigits(s, i + 1, r.val)

ParseUsize(s) ==
    LET digits == IF s # <<>> /\ s[1] = "+" THEN Tail(s) ELSE s
    IN  IF digits = <<>>
        THEN [ok |-> FALSE, val |-> UsizeZero]
        ELSE ParseDigits(digits, 1, UsizeZero)

---------------------------------------------------------------------------
(* Strings and paths.                                                      *)

\* str::replace(pattern, ""): every non-overlapping match, left to right,
\* in one pass.
RECURSIVE RemoveAll(_, _)
RemoveAll(s, pattern) ==
    IF s = <<>>
    THEN <<>>
    ELSE IF Len(s) >= Len(pattern) /\ SubSeq(s, 1, Len(pattern)) = pattern
    THEN RemoveAll(SubSeq(s, Len(pattern) + 1, Len(s)), pattern)
    ELSE <<s[1]>> \o RemoveAll(Tail(s), pattern)

\* The non-empty pieces of a path between its '/' separators.
RECURSIVE SplitPath(_, _, _)
SplitPath(p, i, piece) ==
    IF i > Len(p)
    THEN IF piece = <<>> THEN <<>> ELSE <<piece>>
    ELSE IF p[i] = "/"
    THEN (IF piece = <<>> THEN <<>> ELSE <<piece>>) \o SplitPath(p, i + 1, <<>>)
    ELSE SplitPath(p, i + 1, Append(piece, p[i]))

IsCurDir(piece) == piece = <<".">>

\* Path::file_name: the last component when it is a normal one.  Empty
\* pieces and "." pieces are not components (a leading "." is CurDir, never
\* Normal); a path ending in ".." has no file name.
FileName(p) ==
    LET pieces == SelectSeq(SplitPath(p, 1, <<>>), LAMBDA c : ~IsCurDir(c))
    IN  IF pieces = <<>> \/ pieces[Len(pieces)] = <<".", ".">>
        THEN [some |-> FALSE, val |-> <<>>]
        ELSE [some |-> TRUE, val |-> pieces[Len(pieces)]]

---------------------------------------------------------------------------
(* derive_season_number                                                    *)

\* Option<usize>, and the two other outcomes of a call: not made yet, and a
\* panic (an unwrap of None, an index out of bounds, an overflow check).
Some(v) == [tag |-> "Some", val |-> v]
None == [tag |-> "None", val |-> <<>>]
Panic == [tag |-> "Panic", val |-> <<>>]
Pending == [tag |-> "Pending", val |-> <<>>]

SEASON == <<"s","e","a","s","o","n">>
SEASON0 == SEASON \o <<"0">>
SEASON_0 == SEASON \o <<" ", "0">>
SPECIALS == <<"s","p","e","c","i","a","l","s">>

\* A faulty variant of StripSeason: the spaces are removed first, so that
\* "sea son" becomes an occurrence of "season".
StripSpacesFirst(name) == RemoveAll(RemoveAll(name, <<" ">>), SEASON)
\* lines 138-139: directory_name.replace("season", "").replace(" ", "")
StripSeason(name) == RemoveAll(RemoveAll(name, SEASON), <<" ">>)

\* line 136: the three literal forms of season 0
IsSeasonZero(name) == name \in {SEASON0, SEASON_0, SPECIALS}

\* line 140: directory_name.parse::<usize>()
ParseSeason(s) == ParseUsize(s)

DeriveSeasonNumber(season) ==
    LET fname == FileName(season)
    IN  IF ~fname.some
        THEN Panic                       \* season.file_name().unwrap()
        ELSE LET directory_name == ToLowercase(fname.val)
             IN  IF IsSeasonZero(directory_name)
                 THEN Some(UsizeZero)
                 ELSE LET parsed == ParseSeason(StripSeason(directory_name))
                      IN  IF parsed.ok THEN Some(parsed.val) ELSE None

---------------------------------------------------------------------------
(* Arguments::get_destination                                              *)

\* tokenizer::TemplateToken
Character(c) == [kind |-> "Character", value |-> c]
Series == [kind |-> "Series", value |-> ""]
Season == [kind |-> "Season", value |-> ""]
Episode == [kind |-> "Episode", value |-> ""]
TVDB == [kind |-> "TVDB", value |-> ""]

\* traits::Digits::to_padded_string: the decimal digits, left-padded with
\* pad_char to at least `width` characters.
ToPaddedString(x, pad_char, width) ==
    LET digits == UsizeToString(x)
    IN  IF Len(digits) >= width
        THEN digits
        ELSE [i \in 1..(width - Len(digits)) |-> pad_char] \o digits

\* A faulty variant of RenderToken: the season number is padded like the
\* episode index.
RenderTokenPadSeason(a, token, episode, title) ==
    CASE token.kind = "Character" -> <<token.value>>
      [] token.kind = "Series" -> a.series_name
      [] token.kind = "Season" -> ToPaddedString(a.season_number, "0", a.pad_length)
      [] token.kind = "Episode" -> ToPaddedString(episode, "0", a.pad_length)
      [] token.kind = "TVDB" -> title
\* lines 90-96: what one template token appends to the filename
RenderToken(a, token, episode, title) ==
    CASE token.kind = "Character" -> <<token.value>>
      [] token.kind = "Series" -> a.series_name
      [] token.kind = "Season" -> UsizeToString(a.season_number)
      [] token.kind = "Episode" -> ToPaddedString(episode, "0", a.pad_length)
      [] token.kind = "TVDB" -> title

\* lines 88-97: the loop over self.template
RECURSIVE RenderTemplate(_, _, _, _, _)
RenderTemplate(a, i, episode, title, filename) ==
    IF i > Len(a.template)
    THEN filename
    ELSE RenderTemplate(a, i + 1, episode, title,
                        filename \o RenderToken(a, a.template[i], episode, title))

\* str::trim
RECURSIVE TrimStart(_)
TrimStart(s) ==
    IF s # <<>> /\ IsWhitespace(s[1]) THEN TrimStart(Tail(s)) ELSE s

RECURSIVE TrimEnd(_)
TrimEnd(s) ==
    IF s # <<>> /\ IsWhitespace(s[Len(s)])
    THEN TrimEnd(SubSeq(s, 1, Len(s) - 1))
    ELSE s

Trim(s) == TrimEnd(TrimStart(s))

\* str::replace("/", "-")
ReplaceSlash(s) == [i \in 1..Len(s) |-> IF s[i] = "/" THEN "-" ELSE s[i]]

\* A faulty variant of Sanitize: '/' is left in place.
SanitizeTrimOnly(filename) == Trim(filename)
\* lines 98-99
Sanitize(filename) == ReplaceSlash(Trim(filename))

\* Path::extension: the part of the file name after its last '.', when the
\* file name has a '.' that is not its first character.
ExtensionOf(name) ==
    LET dots == {k \in 1..Len(name) : name[k] = "."}
        last == CHOOSE k \in dots : \A j \in dots : j <= k
    IN  IF dots = {} \/ last = 1
        THEN [some |-> FALSE, val |-> <<>>]
        ELSE [some |-> TRUE, val |-> SubSeq(name, last + 1, Len(name))]

Extension(file) ==
    LET fname == FileName(file)
    IN  IF fname.some THEN ExtensionOf(fname.val) ELSE [some |-> FALSE, val |-> <<>>]

\* line 102: file.extension().unwrap_or_else(|| OsStr::new("")).to_str().unwrap_or("")
ExtensionStr(file) ==
    LET e == Extension(file) IN IF e.some THEN e.val ELSE <<>>

GetDestination(a, dir, file, episode, title) ==
    LET destination == dir \o <<"/">>
        filename == Sanitize(RenderTemplate(a, 1, episode, title, <<>>))
        extension == ExtensionStr(file)
        with_ext == IF extension # <<>>
                    THEN filename \o <<".">> \o extension
                    ELSE filename
    IN  destination \o with_ext

---------------------------------------------------------------------------
(* Inputs of get_destination.                                              *)

MaxTemplateLen == 3
MaxPad == 2

Two32 == [i \in 1..NumLimbs |-> IF i = 3 THEN 1 ELSE 0]

DstTokens == {Character(" "), Character("/"), Series, Season, Episode, TVDB}

RECURSIVE TemplatesUpTo(_)
TemplatesUpTo(n) ==
    IF n = 0
    THEN {<<>>}
    ELSE LET shorter == TemplatesUpTo(n - 1)
         IN  shorter \cup {Append(t, k) : t \in shorter, k \in DstTokens}

DstFiles ==
    { <<"f",".","m">>, <<"f">>, <<".","h">>, <<"d",".","x","/","f">>,
      <<"f",".">>, <<".",".">>, <<"f",".","M","/",".">> }

\* directory, series name, season number, episode index and title of a call
DstContexts ==
    { [directory |-> <<"d">>,
       series_name |-> <<" ","a","/","b">>, season_number |-> Usize(2),
       episode |-> Usize(7), title |-> <<"t","/"," ">>],
      [directory |-> <<"d","/","e">>,
       series_name |-> <<".",".">>, season_number |-> Two32,
       episode |-> UsizeWrappingInc(Two32), title |-> <<>>],
      [directory |-> <<"/","d","/">>,
       series_name |-> <<"S"," ">>, season_number |-> Usize(10),
       episode |-> Usize(123), title |-> <<" ","T">>] }

InitDst ==
    /\ \E t \in TemplatesUpTo(MaxTemplateLen), c \in DstContexts, p \in 0..MaxPad :
          /\ dst_args = [series_name |-> c.series_name,
                         season_number |-> c.season_number,
                         pad_length |-> p, template |-> t]
          /\ \E f \in DstFiles :
                dst_call = [directory |-> c.directory, file |-> f,
                            episode |-> c.episode, title |-> c.title]
    /\ dst_result = [done |-> FALSE, path |-> <<>>]

IdleDst ==
    /\ dst_args = [series_name |-> <<>>, season_number |-> UsizeZero,
                   pad_length |-> 0, template |-> <<>>]
    /\ dst_call = [directory |-> <<>>, file |-> <<>>, episode |-> UsizeZero,
                   title |-> <<>>]
    /\ dst_result = [done |-> FALSE, path |-> <<>>]

\* self.get_destination(directory, file, episode, title)
GetDestinationCall ==
    /\ ~dst_result.done
    /\ dst_result' = [done |-> TRUE,
                      path |-> GetDestination(dst_args, dst_call.directory,
                                              dst_call.file, dst_call.episode,
                                              dst_call.title)]
    /\ UNCHANGED <<dst_args, dst_call>>
    /\ UNCHANGED <<season_vars, scan_vars, targets_vars>>

---------------------------------------------------------------------------
(* Directory names given to derive_season_number: up to MaxSeasonParts     *)
(* pieces, one after the other.                                            *)

MaxSeasonParts == 3

BigDigits == <<"1","8","4","4","6","7","4","4","0","7","3","7","0","9","5","5","1","6","1">>

SeasonPieces ==
    { <<"S","e","a","s","o","n">>, SEASON, <<"S","E","A","S","O","N">>,
      <<" ">>, <<"0">>, <<"1">>, <<"9">>, <<"1","2">>, <<"5">>,
      <<"+">>, <<"-">>, <<" ","(","x",")">>,
      <<"S","p","e","c","i","a","l","s">>, <<"E","x","t","r","a","s">>,
      <<"s","e","a">>, <<" ","s","o","n">>,
      <<"/">>, <<".",".">>, BigDigits }

RECURSIVE PieceStrings(_)
PieceStrings(n) ==
    IF n = 0
    THEN {<<>>}
    ELSE LET shorter == PieceStrings(n - 1)
         IN  shorter \cup {s \o p : s \in shorter, p \in SeasonPieces}

SeasonInputs == PieceStrings(MaxSeasonParts)

IdleSeason == season_path = <<>> /\ season_result = Pending

InitSeason ==
    /\ season_path \in SeasonInputs
    /\ season_result = Pending

\* derive_season_number(season)
DeriveSeasonNumberCall ==
    /\ season_result = Pending
    /\ season_result' = DeriveSeasonNumber(season_path)
    /\ UNCHANGED season_path
    /\ UNCHANGED <<dst_vars, scan_vars, targets_vars>>

---------------------------------------------------------------------------
(* Arguments::get_targets                                                  *)

\* A faulty variant of TemplateWantsTitles: the template is not consulted.
AlwaysWantsTitles(template) == TRUE
\* lines 52 and 65: self.template.contains(&TemplateToken::TVDB)
TemplateWantsTitles(template) ==
    \E i \in 1..Len(template) : template[i] = TVDB

\* Result<Vec<PathBuf>, String>
ResultPending == [tag |-> "Pending", paths |-> <<>>, error |-> "", file |-> <<>>]
Ok(paths) == [tag |-> "Ok", paths |-> paths, error |-> "", file |-> <<>>]
\* line 55
SeriesError ==
    [tag |-> "Err", paths |-> <<>>,
     error |-> "unable to get TVDB series information", file |-> <<>>]
\* A faulty variant of EpisodeError: the message does not name the file.
EpisodeErrorUnnamed(file) ==
    [tag |-> "Err", paths |-> <<>>,
     error |-> "episode '{}' does not exist", file |-> <<>>]
\* line 69: format!("episode '{}' does not exist", file.to_string_lossy())
EpisodeError(file) ==
    [tag |-> "Err", paths |-> <<>>,
     error |-> "episode '{}' does not exist", file |-> file]

\* line 67: the key of api.episode
LookupKey(season_number, index) ==
    [season |-> AsU32(season_number), episode |-> AsU32(index)]

\* A faulty variant of NextIndex: the counter is not stepped.
SameIndex(index) == index
\* line 78: current_index += 1 (the overflow case is in RenderAndAdvance)
NextIndex(index) == UsizeWrappingInc(index)

\* line 51-59: the template needs no titles, no search is made
SkipSearch ==
    /\ pc = "search"
    /\ ~TemplateWantsTitles(args.template)
    /\ series_info' = [some |-> FALSE, reply |-> <<>>]
    /\ pc' = "loop"
    /\ UNCHANGED <<args, directory, episodes, episode_index, output,
                   current_index, file_pos, overflow_checks, result,
                   search_calls, lookup_calls, render_calls>>
    /\ UNCHANGED <<season_vars, dst_vars, scan_vars>>

\* lines 53-54: api.search answers Ok(reply), a list of n series
SearchOk(n) ==
    /\ pc = "search"
    /\ TemplateWantsTitles(args.template)
    /\ search_calls' = Append(search_calls,
                              [name |-> args.series_name, ok |-> TRUE])
    /\ series_info' = [some |-> TRUE, reply |-> [k \in 1..n |-> k]]
    /\ pc' = "loop"
    /\ UNCHANGED <<args, directory, episodes, episode_index, output,
                   current_index, file_pos, overflow_checks, result,
                   lookup_calls, render_calls>>
    /\ UNCHANGED <<season_vars, dst_vars, scan_vars>>

\* lines 53, 55: api.search answers Err
SearchErr ==
    /\ pc = "search"
    /\ TemplateWantsTitles(args.template)
    /\ search_calls' = Append(search_calls,
                              [name |-> args.series_name, ok |-> FALSE])
    /\ result' = SeriesError
    /\ pc' = "done"
    /\ UNCHANGED <<args, directory, episodes, episode_index, series_info,
                   output, current_index, file_pos, overflow_checks,
                   lookup_calls, render_calls>>
    /\ UNCHANGED <<season_vars, dst_vars, scan_vars>>

\* lines 76-78: render the current file, push the path, step the counter.
\* At usize::MAX the step overflows: a panic in a build with overflow
\* checks, a wrap to 0 in one without.
RenderAndAdvance(title) ==
    LET file == episodes[file_pos]
        new_destination ==
            GetDestination(args, directory, file, current_index, title)
    IN  /\ render_calls' = Append(render_calls,
                                  [file |-> file, episode |-> current_index,
                                   title |-> title])
        /\ output' = Append(output, new_destination)
        /\ IF current_index = UsizeMax /\ overflow_checks
           THEN /\ pc' = "aborted"
                /\ UNCHANGED <<current_index, file_pos>>
           ELSE /\ current_index' = NextIndex(current_index)
                /\ file_pos' = file_pos + 1
                /\ pc' = "loop"

\* lines 63, 71-78: one iteration, the template needs no titles
IterateNoTitle ==
    /\ pc = "loop"
    /\ file_pos <= Len(episodes)
    /\ ~TemplateWantsTitles(args.template)
    /\ RenderAndAdvance(<<>>)
    /\ UNCHANGED <<args, directory, episodes, episode_index, series_info,
                   overflow_checks, result, search_calls, lookup_calls>>
    /\ UNCHANGED <<season_vars, dst_vars, scan_vars>>

\* lines 63-68, 76-78: one iteration, api.episode answers Ok(episode)
IterateTitleOk(episode_name) ==
    /\ pc = "loop"
    /\ file_pos <= Len(episodes)
    /\ TemplateWantsTitles(args.template)
    /\ series_info.some /\ series_info.reply # <<>>
    /\ lookup_calls' =
          Append(lookup_calls,
                 [series |-> series_info.reply[1],
                  key |-> LookupKey(args.season_number, current_index),
                  file_pos |-> file_pos, ok |-> TRUE, title |-> episode_name])
    /\ RenderAndAdvance(episode_name)
    /\ UNCHANGED <<args, directory, episodes, episode_index, series_info,
                   overflow_checks, result, search_calls>>
    /\ UNCHANGED <<season_vars, dst_vars, scan_vars>>

\* lines 63-67, 69: one iteration, api.episode answers Err
IterateTitleErr ==
    /\ pc = "loop"
    /\ file_pos <= Len(episodes)
    /\ TemplateWantsTitles(args.template)
    /\ series_info.some /\ series_info.reply # <<>>
    /\ lookup_calls' =
          Append(lookup_calls,
                 [series |-> series_info.reply[1],
                  key |-> LookupKey(args.season_number, current_index),
                  file_pos |-> file_pos, ok |-> FALSE, title |-> <<>>])
    /\ result' = EpisodeError(episodes[file_pos])
    /\ pc' = "done"
    /\ UNCHANGED <<args, directory, episodes, episode_index, series_info,
                   output, current_index, file_pos, overflow_checks,
                   search_calls, render_calls>>
    /\ UNCHANGED <<season_vars, dst_vars, scan_vars>>

\* lines 66-67: series_info.clone().unwrap() and &reply[0].  The unwrap
\* cannot fail (titles wanted means the search answered Ok); reply[0]
\* panics, index out of bounds, when the search matched no series.
IterateNoSeries ==
    /\ pc = "loop"
    /\ file_pos <= Len(episodes)
    /\ TemplateWantsTitles(args.template)
    /\ series_info.reply = <<>>
    /\ pc' = "aborted"
    /\ UNCHANGED <<args, directory, episodes, episode_index, series_info,
                   output, current_index, file_pos, overflow_checks, result,
                   search_calls, lookup_calls, render_calls>>
    /\ UNCHANGED <<season_vars, dst_vars, scan_vars>>

\* line 80: Ok(output)
ReturnOutput ==
    /\ pc = "loop"
    /\ file_pos > Len(episodes)
    /\ result' = Ok(output)
    /\ pc' = "done"
    /\ UNCHANGED <<args, directory, episodes, episode_index, series_info,
                   output, current_index, file_pos, overflow_checks,
                   search_calls, lookup_calls, render_calls>>
    /\ UNCHANGED <<season_vars, dst_vars, scan_vars>>

---------------------------------------------------------------------------
(* Inputs of get_targets and answers of the TVDB client.                   *)

MaxEpisodes == 3
MaxSeries == 2

TargetTemplates ==
    { <<Series, Character(" "), Season, Character("x"), Episode>>,
      <<Episode, Character(" "), TVDB>>,
      <<TVDB>> }

TargetSeasons == {Usize(1), UsizeWrappingInc(Two32)}

\* 1, 2^32 - 1 and usize::MAX - 1
TargetIndexes ==
    { Usize(1),
      [i \in 1..NumLimbs |-> IF i <= 2 THEN LimbBase - 1 ELSE 0],
      [i \in 1..NumLimbs |-> IF i = 1 THEN LimbBase - 2 ELSE LimbBase - 1] }

TargetFiles == { <<"a",".","m">>, <<"b">> }

RECURSIVE FileListsUpTo(_)
FileListsUpTo(n) ==
    IF n = 0
    THEN {<<>>}
    ELSE LET shorter == FileListsUpTo(n - 1)
         IN  shorter \cup {Append(l, f) : l \in shorter, f \in TargetFiles}

EpisodeNames == { <<"t">>, <<"p","/","q">> }

InitTargets ==
    /\ \E t \in TargetTemplates, sn \in TargetSeasons :
          args = [series_name |-> <<"s">>, season_number |-> sn,
                  pad_length |-> 2, template |-> t]
    /\ directory = <<"d">>
    /\ episodes \in FileListsUpTo(MaxEpisodes)
    /\ episode_index \in TargetIndexes
    /\ overflow_checks \in BOOLEAN
    /\ pc = "search"
    /\ series_info = [some |-> FALSE, reply |-> <<>>]
    /\ output = <<>>
    /\ current_index = episode_index
    /\ file_pos = 1
    /\ result = ResultPending
    /\ search_calls = <<>>
    /\ lookup_calls = <<>>
    /\ render_calls = <<>>

IdleTargets ==
    /\ args = [series_name |-> <<>>, season_number |-> UsizeZero,
               pad_length |-> 0, template |-> <<>>]
    /\ directory = <<>>
    /\ episodes = <<>>
    /\ episode_index = UsizeZero
    /\ overflow_checks = FALSE
    /\ pc = "idle"
    /\ series_info = [some |-> FALSE, reply |-> <<>>]
    /\ output = <<>>
    /\ current_index = UsizeZero
    /\ file_pos = 1
    /\ result = ResultPending
    /\ search_calls = <<>>
    /\ lookup_calls = <<>>
    /\ render_calls = <<>>

---------------------------------------------------------------------------
(* get_seasons and get_episodes                                            *)

\* str's Ord: byte-wise lexicographic
RECURSIVE StrLess(_, _)
StrLess(a, b) ==
    IF b = <<>> THEN FALSE
    ELSE IF a = <<>> THEN TRUE
    ELSE IF a[1] # b[1] THEN Ord(a[1]) < Ord(b[1])
    ELSE StrLess(Tail(a), Tail(b))

\* slice::sort_by with the comparison of lines 166 and 188 (a stable sort)
RECURSIVE InsertSorted(_, _)
InsertSorted(x, sorted) ==
    IF sorted = <<>> THEN <<x>>
    ELSE IF StrLess(x, sorted[1]) THEN <<x>> \o sorted
    ELSE <<sorted[1]>> \o InsertSorted(x, Tail(sorted))

\* A faulty variant of SortPaths: the read order is kept.
Unsorted(paths) == paths
RECURSIVE SortPaths(_)
SortPaths(paths) ==
    IF paths = <<>> THEN <<>>
    ELSE InsertSorted(paths[Len(paths)],
                      SortPaths(SubSeq(paths, 1, Len(paths) - 1)))

\* DirEntry::path: the directory joined with the entry's name
JoinPath(dir, name) ==
    IF dir[Len(dir)] = "/" THEN dir \o name ELSE dir \o <<"/">> \o name

ScanPending == [tag |-> "Pending", paths |-> <<>>, error |-> ""]
ScanOk(paths) == [tag |-> "Ok", paths |-> paths, error |-> ""]
ScanErr(msg) == [tag |-> "Err", paths |-> <<>>, error |-> msg]

\* line 156: metadata.is_dir()
IsDir(entry) == entry.kind = "dir"
\* line 180: metadata.is_file()
IsFile(entry) == entry.kind = "file"

\* lines 153-165: the loop over the entries, in the order read_dir gives them
RECURSIVE CollectSeasons(_, _, _)
CollectSeasons(order, i, seasons) ==
    IF i > Len(order) THEN ScanOk(SortPaths(seasons))
    ELSE IF order[i].kind = "entry_err" THEN ScanErr("unable to get directory entry")
    ELSE IF order[i].kind = "meta_err" THEN ScanErr("unable to get metadata")
    ELSE CollectSeasons(order, i + 1,
                        IF IsDir(order[i])
                        THEN Append(seasons, JoinPath(fs_dir, order[i].name))
                        ELSE seasons)

\* lines 177-189
RECURSIVE CollectEpisodes(_, _, _)
CollectEpisodes(order, i, found) ==
    IF i > Len(order) THEN ScanOk(SortPaths(found))
    ELSE IF order[i].kind = "entry_err" THEN ScanErr("unable to get file entry")
    ELSE IF order[i].kind = "meta_err" THEN ScanErr("unable to get metadata")
    ELSE CollectEpisodes(order, i + 1,
                         IF IsFile(order[i])
                         THEN Append(found, JoinPath(fs_dir, order[i].name))
                         ELSE found)

\* The orders in which read_dir may yield the entries: every one.
ReadOrders ==
    {o \in [1..Cardinality(fs_entries) -> fs_entries] :
        \A i, j \in 1..Cardinality(fs_entries) : i # j => o[i] # o[j]}

\* get_seasons(directory)
GetSeasonsCall ==
    /\ seasons_result = ScanPending
    /\ IF fs_readable
       THEN \E order \in ReadOrders :
               seasons_result' = CollectSeasons(order, 1, <<>>)
       ELSE seasons_result' = ScanErr("unable to read directory")
    /\ UNCHANGED <<fs_dir, fs_readable, fs_entries, episodes_result>>
    /\ UNCHANGED <<season_vars, dst_vars, targets_vars>>

\* get_episodes(directory)
GetEpisodesCall ==
    /\ episodes_result = ScanPending
    /\ IF fs_readable
       THEN \E order \in ReadOrders :
               episodes_result' = CollectEpisodes(order, 1, <<>>)
       ELSE episodes_result' = ScanErr("unable to read file")
    /\ UNCHANGED <<fs_dir, fs_readable, fs_entries, seasons_result>>
    /\ UNCHANGED <<season_vars, dst_vars, targets_vars>>

---------------------------------------------------------------------------
(* Directory contents.                                                     *)

MaxEntries == 3

ScanNames == { <<"a">>, <<"B">>, <<"a","b">>, <<"a",".","m">> }

\* What an entry is: a directory, a regular file, something else (a
\* symlink, a socket), an entry read_dir fails to read, or an entry whose
\* metadata cannot be read.
EntryKinds == {"dir", "file", "other", "entry_err", "meta_err"}

InitScan ==
    /\ fs_dir \in { <<"d">>, <<"d","/">> }
    /\ fs_readable \in BOOLEAN
    /\ \E names \in SUBSET ScanNames :
          /\ Cardinality(names) <= MaxEntries
          /\ \E kind \in [names -> EntryKinds] :
                fs_entries = {[name |-> n, kind |-> kind[n]] : n \in names}
    /\ seasons_result = ScanPending
    /\ episodes_result = ScanPending

IdleScan ==
    /\ fs_dir = <<"d">>
    /\ fs_readable = FALSE
    /\ fs_entries = {}
    /\ seasons_result = ScanPending
    /\ episodes_result = ScanPending

---------------------------------------------------------------------------
(* Specifications: one per operation.                                      *)

SeasonInit == InitSeason /\ IdleDst /\ IdleScan /\ IdleTargets
SeasonNext == DeriveSeasonNumberCall
SpecSeason == SeasonInit /\ [][SeasonNext]_vars

DstInit == IdleSeason /\ InitDst /\ IdleScan /\ IdleTargets
DstNext == GetDestinationCall
SpecDst == DstInit /\ [][DstNext]_vars

ScanInit == IdleSeason /\ IdleDst /\ InitScan /\ IdleTargets
ScanNext == GetSeasonsCall \/ GetEpisodesCall
SpecScan == ScanInit /\ [][ScanNext]_vars

TargetsInit == IdleSeason /\ IdleDst /\ IdleScan /\ InitTargets
TargetsNext ==
    \/ SkipSearch
    \/ \E n \in 0..MaxSeries : SearchOk(n)
    \/ SearchErr
    \/ IterateNoTitle
    \/ \E name \in EpisodeNames : IterateTitleOk(name)
    \/ IterateTitleErr
    \/ IterateNoSeries
    \/ ReturnOutput
SpecTargets == TargetsInit /\ [][TargetsNext]_vars

\* Any one of the operations, on any of its inputs.
Init == SeasonInit \/ DstInit \/ ScanInit \/ TargetsInit
Next == SeasonNext \/ DstNext \/ ScanNext \/ TargetsNext
Spec == Init /\ [][Next]_vars

---------------------------------------------------------------------------
(* Properties of derive_season_number (checked under SpecSeason).          *)

Str_Specials == <<"S","p","e","c","i","a","l","s">>
Str_Season == <<"S","e","a","s","o","n">>
Str_SEASON == <<"S","E","A","S","O","N">>
Str_Extras == <<"E","x","t","r","a","s">>

\* The lowercased final component of the path given to the call.
SeasonName == ToLowercase(FileName(season_path).val)

\* Position i of `low` lies inside an occurrence of "season".
InSeasonOccurrence(low, i) ==
    \E k \in 1..Len(low) :
        /\ k <= i /\ i <= k + 5 /\ k + 5 <= Len(low)
        /\ SubSeq(low, k, k + 5) = SEASON

\* `low` without its occurrences of "season" and without its spaces.
RemainderOf(low) ==
    LET kept == SelectSeq([i \in 1..Len(low) |-> i],
                          LAMBDA i : ~InSeasonOccurrence(low, i) /\ low[i] # " ")
    IN  [j \in 1..Len(kept) |-> low[kept[j]]]

\* The digits of a remainder: what follows the sign the integer parser takes.
Unsigned(rem) == IF rem # <<>> /\ rem[1] = "+" THEN Tail(rem) ELSE rem

IsNumeral(digits) ==
    digits # <<>> /\ \A i \in 1..Len(digits) : IsDigit(digits[i])

RECURSIVE WithoutLeadingZeros(_)
WithoutLeadingZeros(digits) ==
    IF Len(digits) > 1 /\ digits[1] = "0"
    THEN WithoutLeadingZeros(Tail(digits))
    ELSE digits

\* The numeral is at most usize::MAX.
FitsUsize(digits) ==
    LET d == WithoutLeadingZeros(digits)
        m == UsizeToString(UsizeMax)
    IN  Len(d) < Len(m) \/ (Len(d) = Len(m) /\ ~StrLess(m, d))

SeasonExamples ==
    { [name |-> Str_Specials, expected |-> Some(Usize(0))],
      [name |-> Str_Season \o <<" ","0">>, expected |-> Some(Usize(0))],
      [name |-> Str_Season \o <<" ","1">>, expected |-> Some(Usize(1))],
      [name |-> SEASON \o <<"9">>, expected |-> Some(Usize(9))],
      [name |-> Str_Season \o <<"1","2">>, expected |-> Some(Usize(12))],
      [name |-> SEASON \o <<" ","1","2">>, expected |-> Some(Usize(12))],
      [name |-> Str_SEASON \o <<" ","1","2">>, expected |-> Some(Usize(12))],
      [name |-> Str_Extras, expected |-> None] }

\* C4: derive_season_number classifies the lowercased final component:
\* exactly "season0", "season 0" and "specials" give 0; any other name gives
\* the number read from what is left after deleting every occurrence of
\* "season" and every space (a decimal numeral, as the integer parser reads
\* it, that fits a usize), and none when that is no such numeral.  The
\* listed names give the listed results.
C4_SeasonClassified ==
    season_result.tag \in {"Some", "None"} =>
        /\ LET low == SeasonName
               digits == Unsigned(RemainderOf(low))
           IN  IF low \in { <<"s","e","a","s","o","n","0">>,
                            <<"s","e","a","s","o","n"," ","0">>,
                            <<"s","p","e","c","i","a","l","s">> }
               THEN season_result = Some(Usize(0))
               ELSE IF IsNumeral(digits) /\ FitsUsize(digits)
               THEN /\ season_result.tag = "Some"
                    /\ UsizeToString(season_result.val) = WithoutLeadingZeros(digits)
               ELSE season_result = None
        /\ \A ex \in SeasonExamples :
              season_path = ex.name => season_result = ex.expected

\* C4 witness: "SEASON 12" has been classified as season 12.
C4_Witness ==
    /\ season_path = Str_SEASON \o <<" ","1","2">>
    /\ season_result = Some(Usize(12))

\* C5: a name that is none of the three season-0 forms and holds a character
\* that is neither a digit, nor a space, nor part of an occurrence of
\* "season" yields none.
C5_ExtraTextYieldsNone ==
    season_result.tag \in {"Some", "None"} =>
        LET low == SeasonName
        IN  (/\ ~IsSeasonZero(low)
             /\ \E i \in 1..Len(low) :
                   /\ ~IsDigit(low[i])
                   /\ low[i] # " "
                   /\ ~InSeasonOccurrence(low, i))
            => season_result = None

---------------------------------------------------------------------------
(* Properties of get_destination (checked under SpecDst).                  *)

\* The digits left-padded with '0' to at least `width` characters.
ZeroPadded(digits, width) ==
    LET n == IF Len(digits) >= width THEN Len(digits) ELSE width
        zeros == n - Len(digits)
    IN  [i \in 1..n |-> IF i <= zeros THEN "0" ELSE digits[i - zeros]]

\* What the claim says a token renders to.
TokenText(token) ==
    CASE token.kind = "Character" -> <<token.value>>
      [] token.kind = "Series" -> dst_args.series_name
      [] token.kind = "Season" -> UsizeToString(dst_args.season_number)
      [] token.kind = "Episode" ->
            ZeroPadded(UsizeToString(dst_call.episode), dst_args.pad_length)
      [] token.kind = "TVDB" -> dst_call.title

RECURSIVE BodyOf(_)
BodyOf(tokens) ==
    IF tokens = <<>> THEN <<>> ELSE TokenText(Head(tokens)) \o BodyOf(Tail(tokens))

\* Trimmed of leading and trailing whitespace, then every '/' made '-'.
Sanitized(body) ==
    LET solid == {i \in 1..Len(body) : body[i] # " "}
        first == CHOOSE i \in solid : \A j \in solid : i <= j
        last == CHOOSE i \in solid : \A j \in solid : j <= i
    IN  IF solid = {}
        THEN <<>>
        ELSE [i \in 1..(last - first + 1) |->
                 IF body[first + i - 1] = "/" THEN "-" ELSE body[first + i - 1]]

\* "." and the extension of the file's name, when it has a non-empty one:
\* the name is stem "." ext with a non-empty stem and no '.' in ext.
SuffixOf(file) ==
    LET fname == FileName(file)
        name == fname.val
        cuts == {k \in 2..Len(name) :
                    /\ name[k] = "."
                    /\ \A j \in (k + 1)..Len(name) : name[j] # "."}
    IN  IF ~fname.some \/ cuts = {}
        THEN <<>>
        ELSE LET k == CHOOSE c \in cuts : TRUE
             IN  IF k = Len(name) THEN <<>> ELSE SubSeq(name, k, Len(name))

\* The text of the returned path after directory + "/".
RenderedName ==
    SubSeq(dst_result.path, Len(dst_call.directory) + 2, Len(dst_result.path))

\* C6: get_destination returns directory + "/" + sanitize(body) + suffix:
\* body is the in-order concatenation of the token renderings (the literal
\* character, the series name, the season in plain decimal, the episode
\* index zero-padded to at least pad_length and never truncated, the title),
\* sanitize trims and then replaces "/" by "-", and suffix is "." + the
\* file's extension when it is non-empty; only the body is sanitized.
C6_DestinationShape ==
    dst_result.done =>
        dst_result.path =
            dst_call.directory \o <<"/">>
                \o Sanitized(BodyOf(dst_args.template)) \o SuffixOf(dst_call.file)

\* C6 witness: " a/b", season 2, episode 7 padded to 2, file "f.m" rendered
\* with the template Series Season Episode.
C6_Witness ==
    /\ dst_result.done
    /\ dst_args.template = <<Series, Season, Episode>>
    /\ dst_args.pad_length = 2
    /\ dst_call.file = <<"f",".","m">>
    /\ dst_result.path = <<"d","/","a","-","b","2","0","7",".","m">>

\* C9 (amended): the returned path is directory + "/" followed by a text
\* that contains no "/", whatever "/" the literals, the series name and the
\* title contain.
C9_NoSeparatorInName ==
    dst_result.done =>
        /\ SubSeq(dst_result.path, 1, Len(dst_call.directory) + 1)
              = dst_call.directory \o <<"/">>
        /\ \A i \in 1..Len(RenderedName) : RenderedName[i] # "/"

\* C9 witness: a series name, a literal and a title that all hold "/" have
\* been rendered.
C9_Witness ==
    /\ dst_result.done
    /\ dst_args.template = <<Series, Character("/"), TVDB>>
    /\ dst_args.series_name = <<" ","a","/","b">>
    /\ dst_call.title = <<"t","/"," ">>
    /\ dst_call.file = <<"d",".","x","/","f">>
    /\ dst_result.path = <<"d","/","a","-","b","-","t","-">>

\* C9 as stated: the returned path adds exactly one path component below
\* the directory (a non-empty name without "/" that is neither "." nor "..").
C9_ExactlyOneComponent ==
    dst_result.done =>
        /\ RenderedName # <<>>
        /\ RenderedName \notin { <<".">>, <<".",".">> }
        /\ \A i \in 1..Len(RenderedName) : RenderedName[i] # "/"

---------------------------------------------------------------------------
(* Properties of get_targets (checked under SpecTargets).                  *)

\* The template holds the EpisodeTitle (TVDB) placeholder.
HasTitleToken == \E i \in 1..Len(args.template) : args.template[i].kind = "TVDB"

\* The starting index plus i, in usize arithmetic.
IndexAt(i) == UsizeCheckedMulAdd(episode_index, 1, i).val

\* The title obtained for the file at position i.
TitleAt(i) == IF HasTitleToken THEN lookup_calls[i].title ELSE <<>>

\* C1: when get_targets succeeds, the returned list has one path per input
\* file and, for every position i, path i is get_destination of file i with
\* episode index starting index + i and the title obtained for that file:
\* the counter starts at the starting index and grows by 1 per file, and no
\* path is reordered, skipped or duplicated.
C1_TargetsPositional ==
    /\ \A i \in 1..Len(render_calls) :
          render_calls[i] = [file |-> episodes[i], episode |-> IndexAt(i - 1),
                             title |-> TitleAt(i)]
    /\ result.tag = "Ok" =>
          /\ Len(result.paths) = Len(episodes)
          /\ \A i \in 1..Len(episodes) :
                result.paths[i] =
                    GetDestination(args, directory, episodes[i],
                                   IndexAt(i - 1), TitleAt(i))

\* C1 witness: three files, two of them different, starting at 2^32 - 1
\* with titles, have been resolved.
C1_Witness ==
    /\ result.tag = "Ok"
    /\ Len(episodes) = 3 /\ episodes[1] # episodes[2]
    /\ HasTitleToken
    /\ lookup_calls[1].title # lookup_calls[2].title
    /\ UsizeToString(episode_index) = <<"4","2","9","4","9","6","7","2","9","5">>
    /\ result.paths[2] # result.paths[3]

\* C2: when the lookup for the file at position i fails, get_targets ends
\* with the error that names exactly that file, the caller receives no path
\* (not the i - 1 already rendered), and nothing is looked up or rendered
\* for a later file.
C2_EpisodeFailureEndsBatch ==
    \A i \in 1..Len(lookup_calls) :
        ~lookup_calls[i].ok =>
            /\ pc = "done"
            /\ result.tag = "Err"
            /\ result.error = "episode '{}' does not exist"
            /\ result.file = episodes[i]
            /\ result.paths = <<>>
            /\ Len(lookup_calls) = i
            /\ Len(render_calls) = i - 1

\* C2 witness: the lookup failed for the second of three files, after the
\* first had been rendered.
C2_Witness ==
    /\ Len(episodes) = 3
    /\ Len(lookup_calls) = 2 /\ ~lookup_calls[2].ok
    /\ Len(output) = 1
    /\ episodes[2] # episodes[1] /\ episodes[2] # episodes[3]
    /\ result.tag = "Err"

\* C3: the series search is made exactly once when the template holds the
\* title placeholder (also for an empty episode list) and never otherwise;
\* it comes before any lookup or render, and when it fails get_targets
\* returns the series error with no lookup made and no path produced.
C3_SearchOnceFirst ==
    /\ Len(search_calls) <= 1
    /\ pc \in {"loop", "done", "aborted"} =>
          Len(search_calls) = (IF HasTitleToken THEN 1 ELSE 0)
    /\ (HasTitleToken /\ search_calls = <<>>) =>
          lookup_calls = <<>> /\ render_calls = <<>>
    /\ \A i \in 1..Len(search_calls) :
          /\ search_calls[i].name = args.series_name
          /\ ~search_calls[i].ok =>
                /\ pc = "done"
                /\ result.tag = "Err"
                /\ result.error = "unable to get TVDB series information"
                /\ result.paths = <<>>
                /\ lookup_calls = <<>> /\ render_calls = <<>> /\ output = <<>>

\* C3 witness: a template with the title placeholder and no episode file
\* has been resolved, with one search.
C3_Witness ==
    /\ pc = "done"
    /\ HasTitleToken
    /\ episodes = <<>>
    /\ Len(search_calls) = 1
    /\ result = Ok(<<>>)

\* C8: each file processed gets exactly one lookup, in file order, keyed by
\* (season number, starting index + i), the numbers rendered into its name,
\* for every season number and index; and no lookup is made without the
\* title placeholder.
C8_LookupKeyedAsRendered ==
    /\ ~HasTitleToken => lookup_calls = <<>>
    /\ \A i \in 1..Len(lookup_calls) :
          /\ lookup_calls[i].file_pos = i
          /\ U32ToUsize(lookup_calls[i].key.season) = args.season_number
          /\ U32ToUsize(lookup_calls[i].key.episode) = IndexAt(i - 1)
    /\ HasTitleToken => Len(render_calls) <= Len(lookup_calls)

\* C10: get_targets always finishes by returning a result value: the list
\* of paths, the series error or the episode error.  It never stops without
\* one.
C10_AlwaysReturnsResult ==
    pc \notin {"search", "loop"} => result.tag \in {"Ok", "Err"}

---------------------------------------------------------------------------
(* Properties of get_seasons and get_episodes (checked under SpecScan).    *)

PathsOfKind(kind) ==
    {JoinPath(fs_dir, e.name) : e \in {x \in fs_entries : x.kind = kind}}

Range(seq) == {seq[i] : i \in 1..Len(seq)}

\* a sorts strictly before b: a is a proper prefix of b, or at the first
\* position where they differ a has the smaller character.
Before(a, b) ==
    \E k \in 1..Len(b) :
        /\ \A j \in 1..(k - 1) : j <= Len(a) /\ a[j] = b[j]
        /\ k = Len(a) + 1 \/ (k <= Len(a) /\ Ord(a[k]) < Ord(b[k]))

StrictlyAscending(paths) ==
    \A i \in 1..(Len(paths) - 1) : Before(paths[i], paths[i + 1])

\* C7: a successful get_seasons returns exactly the entries that are
\* directories and a successful get_episodes exactly those that are regular
\* files, each list sorted ascending by the full path string with no path
\* twice, and no path is in both lists.
C7_ListingsExactSortedDisjoint ==
    /\ seasons_result.tag = "Ok" =>
          /\ Range(seasons_result.paths) = PathsOfKind("dir")
          /\ StrictlyAscending(seasons_result.paths)
    /\ episodes_result.tag = "Ok" =>
          /\ Range(episodes_result.paths) = PathsOfKind("file")
          /\ StrictlyAscending(episodes_result.paths)
    /\ (seasons_result.tag = "Ok" /\ episodes_result.tag = "Ok") =>
          Range(seasons_result.paths) \cap Range(episodes_result.paths) = {}

\* C7 witness: a directory with two subdirectories and a file has been
\* listed both ways.
C7_Witness ==
    /\ seasons_result.tag = "Ok" /\ Len(seasons_result.paths) = 2
    /\ episodes_result.tag = "Ok" /\ Len(episodes_result.paths) = 1
    /\ seasons_result.paths[1] = <<"d","/","B">>

=============================================================================
